---- MODULE Spec2Model ----
(***************************************************************************)
(* Model of biscuit-component-wasm (src/src/lib.rs): the position mapper   *)
(* get_position, the diagnostic collector get_parse_errors and the request *)
(* pipeline execute_inner (block assembly, verification, reconciliation of *)
(* the outcome onto the editors, ad-hoc query).                            *)
(*                                                                         *)
(* A text is a sequence of bytes.  A Rust string slice of a text is the    *)
(* record [ptr, len]: the byte offset of its first byte in the text and    *)
(* its length, which is all that nom's Offset and the slice operations of  *)
(* get_position look at.                                                   *)
(***************************************************************************)
EXTENDS Integers, Sequences, FiniteSets, TLC

\* ------------------------------------------------------------------------
\* Bounds of the model
\* ------------------------------------------------------------------------
MaxLen == 3
MaxBlocks == 2
MaxChecks == 2
MaxPolicies == 2
MaxFailures == 2

\* ------------------------------------------------------------------------
\* Bytes
\* ------------------------------------------------------------------------
NL == 10
CR == 13
SP == 32

Bytes == {NL, CR, SP, 97}

WhiteSpace == {NL, CR, SP}

Min(S) == CHOOSE x \in S : \A y \in S : x <= y

Texts == UNION {[1..n -> Bytes] : n \in 0..MaxLen}

Slice(p, l) == [ptr |-> p, len |-> l]

\* every contiguous substring of t, by reference
SpansOf(t) == {Slice(p, l) : p \in 0..Len(t), l \in 0..Len(t)} \cap
              {s \in [ptr : 0..Len(t), len : 0..Len(t)] : s.ptr + s.len <= Len(t)}

\* ------------------------------------------------------------------------
\* get_position (lib.rs 334-391)
\* ------------------------------------------------------------------------

\* nom::Offset: distance between the start pointers of two slices
Offset(first, second) == second.ptr - first.ptr

\* prefix.iter().filter(|&&b| b == b'\n').count()
CountNewlines(input, offset) == Cardinality({i \in 1..offset : input[i] = NL})

\* LineBegin that keeps the newline in the line: offset - pos - 1
LineBegin_KeepNewline(input, offset) ==
    LET found == {pos \in 0..(offset - 1) : input[offset - pos] = NL}
    IN  IF found = {} THEN 0 ELSE offset - Min(found) - 1

\* prefix.iter().rev().position(|&b| b == b'\n').map(|pos| offset - pos).unwrap_or(0)
LineBegin(input, offset) ==
    LET found == {pos \in 0..(offset - 1) : input[offset - pos] = NL}
    IN  IF found = {} THEN 0 ELSE offset - Min(found)

\* input[line_begin..].lines().next().unwrap_or(&input[line_begin..])
FirstLine(input, line_begin) ==
    LET n    == Len(input)
        nls  == {i \in (line_begin + 1)..n : input[i] = NL}
        stop == IF nls = {} THEN n ELSE Min(nls) - 1
        cut  == IF nls /= {} /\ stop > line_begin /\ input[stop] = CR
                THEN stop - 1 ELSE stop
    IN  IF line_begin = n THEN Slice(line_begin, 0)
        ELSE Slice(line_begin, cut - line_begin)

\* str::trim_end: drops trailing whitespace, keeps the start of the slice
TrimEnd(input, s) ==
    LET keep == {l \in 0..s.len : \A i \in (s.ptr + l + 1)..(s.ptr + s.len) :
                                     input[i] \in WhiteSpace}
    IN  Slice(s.ptr, Min(keep))

\* ColumnEnd without the final increment
ColumnEnd_NoIncrement(line, tail) == Offset(line, tail)

\* the column computed in the second half of get_position
ColumnEnd(line, tail) == Offset(line, tail) + 1

get_position(input, span) ==
    LET offset       == Offset(Slice(0, Len(input)), span)
        line_start   == CountNewlines(input, offset)
        line_begin   == LineBegin(input, offset)
        line         == TrimEnd(input, FirstLine(input, line_begin))
        column_start == Offset(line, span)
        offset2      == offset + span.len
        line_end     == CountNewlines(input, offset2)
        line_begin2  == LineBegin(input, offset2)
        line2        == TrimEnd(input, FirstLine(input, line_begin2))
        column_end   == ColumnEnd(line2, Slice(span.ptr + span.len, 0))
    IN  [line_start |-> line_start, column_start |-> column_start,
         line_end |-> line_end, column_end |-> column_end]

\* ------------------------------------------------------------------------
\* Data model (lib.rs 34-74, 393-408)
\* ------------------------------------------------------------------------
\* Option<T>: None is the empty sequence, Some(x) the sequence of x alone
None == <<>>

Some(x) == <<x>>

Marker(ok, position) == [ok |-> ok, position |-> position]

DefaultEditor == [errors |-> <<>>, markers |-> <<>>]

DefaultBlock == [checks |-> <<>>, enabled |-> TRUE]

DefaultBiscuitResult ==
    [token_blocks |-> <<>>, token_content |-> <<>>, verifier_editor |-> None,
     verifier_result |-> None, verifier_world |-> <<>>, query_result |-> <<>>]

\* Fact { name, terms: ids.map(|id| id.to_string()) }
RenderFact(fact) ==
    [name |-> fact.name, terms |-> [k \in 1..Len(fact.ids) |-> ToString(fact.ids[k])]]

RenderFacts(facts) == [k \in 1..Len(facts) |-> RenderFact(facts[k])]

\* ------------------------------------------------------------------------
\* get_parse_errors (lib.rs 410-423)
\* ------------------------------------------------------------------------
\* e.message.as_ref().cloned().unwrap_or_else(|| format!("error: {:?}", e.code))
ErrorMessage(e) == IF e.message = None THEN <<"error: ", e.code>> ELSE <<e.message[1]>>

get_parse_errors(input, errors) ==
    [k \in 1..Len(errors) |->
        [message |-> ErrorMessage(errors[k]),
         position |-> get_position(input, errors[k].input)]]

\* ------------------------------------------------------------------------
\* What the external parser returns for a source text: the texts of the
\* requests explored.  Statement k of a text sits on line k, indented by k
\* spaces, so that every statement of a text has its own position.
\* ------------------------------------------------------------------------
RECURSIVE Spaces(_)
Spaces(k) == IF k = 0 THEN <<>> ELSE <<SP>> \o Spaces(k - 1)

RECURSIVE LinesText(_, _)
LinesText(k, n) == IF k >= n THEN <<>> ELSE Spaces(k) \o <<97, NL>> \o LinesText(k + 1, n)

\* offset of statement k: lines 0..k-1 take (j + 2) bytes each, then k spaces
StatementSpan(k) == Slice((k * (k - 1)) \div 2 + 2 * k + k, 1)

ParsedSource(c, p) ==
    [text |-> LinesText(0, c + p), ok |-> TRUE, errors |-> <<>>,
     facts |-> <<[name |-> "fact", ids |-> <<c, p>>]>>,
     checks |-> [k \in 1..c |-> StatementSpan(k - 1)],
     policies |-> [k \in 1..p |-> StatementSpan(c + k - 1)]]

UnparsableSource ==
    [text |-> LinesText(0, 2), ok |-> FALSE,
     errors |-> <<[input |-> StatementSpan(1), message |-> Some("unexpected"), code |-> "Tag"],
                  [input |-> StatementSpan(0), message |-> None, code |-> "Eof"]>>,
     facts |-> <<>>, checks |-> <<>>, policies |-> <<>>]

BlockSources == {UnparsableSource} \cup {ParsedSource(c, 0) : c \in 0..MaxChecks}

VerifierSources ==
    {UnparsableSource} \cup {ParsedSource(c, p) : c \in 0..MaxChecks, p \in 0..MaxPolicies}

Queries == {None, Some(""), Some("q($x) <- fact($x)")}

\* ------------------------------------------------------------------------
\* External collaborators: block builder, token, verifier
\* ------------------------------------------------------------------------
EmptyBuilder == [facts |-> <<>>, checks |-> <<>>]

\* builder.add_authority_check / builder.add_check / verifier.add_check
AddCheck(b, check) == [b EXCEPT !.checks = Append(@, check)]

\* AppendBlock that drops a block in which nothing was registered
AppendBlock_SkipEmpty(tok, b) == IF b = [facts |-> <<>>, checks |-> <<>>] THEN tok ELSE Append(tok, b)

\* builder.build_with_rng / token.append_with_rng
AppendBlock(tok, b) == Append(tok, b)

\* token.print()
TokenContent(tok) == [k \in 1..Len(tok) |-> [facts |-> Len(tok[k].facts), checks |-> Len(tok[k].checks)]]

NoVerifierYet ==
    [blocks |-> <<>>, facts |-> <<>>, checks |-> <<>>, policies |-> <<>>,
     verified |-> FALSE, queries |-> 0, last_query |-> None]

\* token.verify(root.public()) / Verifier::new()
NewVerifier(tok_opt) ==
    [NoVerifierYet EXCEPT !.blocks = IF tok_opt = None THEN <<>> ELSE tok_opt[1]]

RECURSIVE BlockFacts(_)
BlockFacts(bs) == IF bs = <<>> THEN <<>> ELSE Head(bs).facts \o BlockFacts(Tail(bs))

\* verifier.dump(): the facts the verifier sees
DumpWorld(v) == BlockFacts(v.blocks) \o v.facts

\* the checks the evaluator can report as failed
CheckRefs(v) ==
    UNION {{[verifier_local |-> FALSE, block_id |-> b, check_id |-> c] :
                c \in 0..(Len(v.blocks[b + 1].checks) - 1)} : b \in 0..(Len(v.blocks) - 1)}
    \cup
    {[verifier_local |-> TRUE, block_id |-> 0, check_id |-> c] : c \in 0..(Len(v.checks) - 1)}

\* A result of verify_with_limits.  The list v of FailedChecks(v) is drawn
\* element by element as the loop over it reads it; the result keeps the
\* number of elements read (read) and the set of checks they name (v).
Outcome(kind, index, err) ==
    [kind |-> kind, index |-> index, error |-> err, v |-> {}, read |-> 0]

\* verifier.verify_with_limits(limits): every result the evaluator can give
Outcomes(v) ==
    {Outcome("Ok", k, None) : k \in 0..(Len(v.policies) - 1)} \cup
    {Outcome("Deny", k, None) : k \in 0..(Len(v.policies) - 1)} \cup
    (IF CheckRefs(v) = {} THEN {} ELSE {Outcome("FailedChecks", 0, None)}) \cup
    {Outcome("Other", 0, Some(e)) : e \in {"RunLimit(Timeout)", "NoMatchingPolicy"}}

\* ------------------------------------------------------------------------
\* Pieces of execute_inner (lib.rs 85-323)
\* ------------------------------------------------------------------------

\* RecordCheck that puts the new entry in front
RecordCheck_Front(checks, position) == <<[position |-> position, ok |-> TRUE]>> \o checks

\* checks.push((position, true))
RecordCheck(checks, position) == Append(checks, [position |-> position, ok |-> TRUE])

\* FlipCheck that leaves the flag alone
FlipCheck_NoFlip(checks, check_id) == checks

\* checks[check_id].1 = false
FlipCheck(checks, check_id) == [checks EXCEPT ![check_id + 1].ok = FALSE]

\* one iteration of the loop over the failed checks (lib.rs 234-255)
ApplyFailure(st, e) ==
    IF e.verifier_local
    THEN [st EXCEPT !.verifier_checks = FlipCheck(@, e.check_id)]
    ELSE IF e.block_id = 0
         THEN [st EXCEPT !.authority.checks = FlipCheck(@, e.check_id)]
         ELSE [st EXCEPT !.blocks[e.block_id].checks = FlipCheck(@, e.check_id)]

\* PolicyMarkers without the Deny arm
PolicyMarkers_NoDeny(res, policies) ==
    IF res.kind = "Ok" THEN <<Marker(TRUE, policies[res.index + 1])>> ELSE <<>>

\* the match on the verification result, policy part (lib.rs 257-270)
PolicyMarkers(res, policies) ==
    IF res.kind = "Deny" THEN <<Marker(FALSE, policies[res.index + 1])>>
    ELSE IF res.kind = "Ok" THEN <<Marker(TRUE, policies[res.index + 1])>>
    ELSE <<>>

\* for (position, result) in checks.iter() { ed.markers.push(..) } (lib.rs 272-290)
CheckMarkers(checks) == [k \in 1..Len(checks) |-> Marker(checks[k].ok, checks[k].position)]

\* ResultText that reports success for every outcome but a failed check
ResultText_ErrorIsSuccess(res) ==
    IF res.kind \in {"Ok", "Other"} THEN <<"Success">> ELSE <<"Error: ", res>>

\* lib.rs 292-295
ResultText(res) == IF res.kind = "Ok" THEN <<"Success">> ELSE <<"Error: ", res>>

\* QueryFacts that renders an error as a fact
QueryFacts_ErrorAsFact(old, res) ==
    IF res.ok THEN RenderFacts(res.facts)
    ELSE RenderFacts(<<[name |-> "query error", ids |-> <<>>]>>)

\* the match on the query result (lib.rs 303-315)
QueryFacts(old, res) == IF res.ok THEN RenderFacts(res.facts) ELSE old

\* ------------------------------------------------------------------------
\* State
\* ------------------------------------------------------------------------
VARIABLES
    pc,                \* where execute_inner stands
    ntoken,            \* query.token_blocks.len()
    query,             \* the fields of the request read so far
    biscuit_result,    \* the response under construction
    authority,         \* Block of the authority block
    blocks,            \* Vec<Block> of the extension blocks
    block,             \* Block of the extension block being assembled
    editor,            \* Editor of the token block being assembled
    builder,           \* external builder handle of the block being assembled
    token,             \* external token: the blocks appended so far
    token_opt,         \* Option<Biscuit>
    verifier,          \* external verifier
    verifier_checks,   \* Vec<(SourcePosition, bool)>
    verifier_policies, \* Vec<SourcePosition>
    verifier_result,   \* Option of the result of verify_with_limits
    i,                 \* index of the token block being assembled
    j,                 \* statements of the current loop already visited
    pm_input, pm_span, pm_pc, pm_position   \* a lone call of get_position

pipe_vars == <<pc, ntoken, query, biscuit_result, authority, blocks, block, editor,
               builder, token, token_opt, verifier, verifier_checks,
               verifier_policies, verifier_result, i, j>>

pm_vars == <<pm_input, pm_span, pm_pc, pm_position>>

vars == <<pipe_vars, pm_vars>>

NoPosition == [line_start |-> 0, column_start |-> 0, line_end |-> 0, column_end |-> 0]

PipeIdle ==
    /\ pc = "start"
    /\ query = [token_blocks |-> <<>>, verifier_code |-> None, query |-> None]
    /\ biscuit_result = DefaultBiscuitResult
    /\ authority = DefaultBlock
    /\ blocks = <<>>
    /\ block = DefaultBlock
    /\ editor = DefaultEditor
    /\ builder = EmptyBuilder
    /\ token = <<>>
    /\ token_opt = None
    /\ verifier = NoVerifierYet
    /\ verifier_checks = <<>>
    /\ verifier_policies = <<>>
    /\ verifier_result = None
    /\ i = 0
    /\ j = 0

PmIdle ==
    /\ pm_input = <<>>
    /\ pm_span = Slice(0, 0)
    /\ pm_pc = "idle"
    /\ pm_position = NoPosition

Init ==
    /\ ntoken \in 0..MaxBlocks
    /\ PipeIdle
    /\ PmIdle

\* the source of the token block being assembled, the text of the verifier
Source == query.token_blocks[i + 1]

VerifierSource == query.verifier_code[1]

\* the checks of the token block being assembled
CurrentChecks == IF i = 0 THEN authority.checks ELSE block.checks

\* ------------------------------------------------------------------------
\* Document builder (lib.rs 100-172)
\* ------------------------------------------------------------------------

\* if !query.token_blocks.is_empty()
Start ==
    /\ pc = "start"
    /\ pc' = IF ntoken = 0 THEN "verifier" ELSE "parse"
    /\ UNCHANGED <<ntoken, query, biscuit_result, authority, blocks, block, editor,
                   builder, token, token_opt, verifier, verifier_checks,
                   verifier_policies, verifier_result, i, j, pm_vars>>

\* parse_source of token block i, then its facts and rules (103-115, 130-148)
ParseBlock ==
    /\ pc = "parse"
    /\ \E src \in BlockSources :
        /\ query' = [query EXCEPT !.token_blocks = Append(@, src)]
        /\ editor' = IF src.ok THEN DefaultEditor
                     ELSE [DefaultEditor EXCEPT !.errors = get_parse_errors(src.text, src.errors)]
        /\ builder' = [EmptyBuilder EXCEPT !.facts = src.facts]
    /\ block' = DefaultBlock
    /\ j' = 0
    /\ pc' = "checks"
    /\ UNCHANGED <<ntoken, biscuit_result, authority, blocks, token, token_opt, verifier,
                   verifier_checks, verifier_policies, verifier_result, i, pm_vars>>

\* one iteration of the loop over the parsed checks (117-121, 150-154)
RegisterCheck ==
    /\ pc = "checks"
    /\ j < Len(Source.checks)
    /\ LET check    == Source.checks[j + 1]
           position == get_position(Source.text, check)
       IN  /\ builder' = AddCheck(builder, check)
           /\ IF i = 0
              THEN /\ authority' = [authority EXCEPT !.checks = RecordCheck(@, position)]
                   /\ block' = block
              ELSE /\ block' = [block EXCEPT !.checks = RecordCheck(@, position)]
                   /\ authority' = authority
    /\ j' = j + 1
    /\ UNCHANGED <<pc, ntoken, query, biscuit_result, blocks, editor, token, token_opt,
                   verifier, verifier_checks, verifier_policies, verifier_result, i,
                   pm_vars>>

\* the builder rejects a statement: .unwrap() panics, the request has no response
RegistrationFailure ==
    /\ \/ pc = "checks" /\ j < Len(Source.checks)
       \/ pc = "verifier_checks" /\ j < Len(VerifierSource.checks)
       \/ pc = "verifier_policies" /\ j < Len(VerifierSource.policies)
    /\ pc' = "panicked"
    /\ UNCHANGED <<ntoken, query, biscuit_result, authority, blocks, block, editor,
                   builder, token, token_opt, verifier, verifier_checks,
                   verifier_policies, verifier_result, i, j, pm_vars>>

\* the block is built or appended, its Editor and Block are kept (125-127, 158-171)
FinishBlock ==
    /\ pc = "checks"
    /\ j = Len(Source.checks)
    /\ token' = AppendBlock(token, builder)
    /\ blocks' = IF i = 0 THEN blocks ELSE Append(blocks, block)
    /\ IF i + 1 < ntoken
       THEN /\ biscuit_result' = [biscuit_result EXCEPT !.token_blocks = Append(@, editor)]
            /\ token_opt' = token_opt
            /\ pc' = "parse"
       ELSE /\ biscuit_result' = [biscuit_result EXCEPT
                                     !.token_blocks = Append(@, editor),
                                     !.token_content = TokenContent(token')]
            /\ token_opt' = Some(token')
            /\ pc' = "verifier"
    /\ i' = i + 1
    /\ UNCHANGED <<ntoken, query, authority, block, editor, builder, verifier,
                   verifier_checks, verifier_policies, verifier_result, j, pm_vars>>

\* ------------------------------------------------------------------------
\* Verification orchestrator (lib.rs 174-230)
\* ------------------------------------------------------------------------

\* query.verifier_code is None
NoVerifier ==
    /\ pc = "verifier"
    /\ pc' = "done"
    /\ UNCHANGED <<ntoken, query, biscuit_result, authority, blocks, block, editor,
                   builder, token, token_opt, verifier, verifier_checks,
                   verifier_policies, verifier_result, i, j, pm_vars>>

\* the verifier text does not parse (186-191)
VerifierParseError ==
    /\ pc = "verifier"
    /\ \E src \in {s \in VerifierSources : ~s.ok} :
        /\ query' = [query EXCEPT !.verifier_code = Some(src)]
        /\ biscuit_result' = [biscuit_result EXCEPT
              !.verifier_editor =
                  Some([DefaultEditor EXCEPT !.errors = get_parse_errors(src.text, src.errors)]),
              !.verifier_result = Some(<<"errors: ", src.errors>>)]
    /\ verifier' = NewVerifier(token_opt)
    /\ pc' = "done"
    /\ UNCHANGED <<ntoken, authority, blocks, block, editor, builder, token, token_opt,
                   verifier_checks, verifier_policies, verifier_result, i, j, pm_vars>>

\* the verifier text parses; its facts and rules are added (175-180, 193-204)
VerifierParsed ==
    /\ pc = "verifier"
    /\ \E src \in {s \in VerifierSources : s.ok} :
        /\ query' = [query EXCEPT !.verifier_code = Some(src)]
        /\ verifier' = [NewVerifier(token_opt) EXCEPT !.facts = src.facts]
    /\ biscuit_result' = [biscuit_result EXCEPT !.verifier_editor = Some(DefaultEditor)]
    /\ j' = 0
    /\ pc' = "verifier_checks"
    /\ UNCHANGED <<ntoken, authority, blocks, block, editor, builder, token, token_opt,
                   verifier_checks, verifier_policies, verifier_result, i, pm_vars>>

\* one iteration of the loop over the verifier's checks (206-211)
RegisterVerifierCheck ==
    /\ pc = "verifier_checks"
    /\ j < Len(VerifierSource.checks)
    /\ LET check == VerifierSource.checks[j + 1]
       IN  /\ verifier' = AddCheck(verifier, check)
           /\ verifier_checks' =
                 RecordCheck(verifier_checks, get_position(VerifierSource.text, check))
    /\ j' = j + 1
    /\ UNCHANGED <<pc, ntoken, query, biscuit_result, authority, blocks, block, editor,
                   builder, token, token_opt, verifier_policies, verifier_result, i,
                   pm_vars>>

\* the loop over the checks ends, the loop over the policies begins
PoliciesBegin ==
    /\ pc = "verifier_checks"
    /\ j = Len(VerifierSource.checks)
    /\ j' = 0
    /\ pc' = "verifier_policies"
    /\ UNCHANGED <<ntoken, query, biscuit_result, authority, blocks, block, editor,
                   builder, token, token_opt, verifier, verifier_checks,
                   verifier_policies, verifier_result, i, pm_vars>>

\* one iteration of the loop over the verifier's policies (213-218)
RegisterPolicy ==
    /\ pc = "verifier_policies"
    /\ j < Len(VerifierSource.policies)
    /\ LET policy == VerifierSource.policies[j + 1]
       IN  /\ verifier' = [verifier EXCEPT !.policies = Append(@, policy)]
           /\ verifier_policies' =
                 Append(verifier_policies, get_position(VerifierSource.text, policy))
    /\ j' = j + 1
    /\ UNCHANGED <<pc, ntoken, query, biscuit_result, authority, blocks, block, editor,
                   builder, token, token_opt, verifier_checks, verifier_result, i,
                   pm_vars>>

\* verify_with_limits, then the world is dumped and rendered (220-230)
Verify ==
    /\ pc = "verifier_policies"
    /\ j = Len(VerifierSource.policies)
    /\ \E res \in Outcomes(verifier) : verifier_result' = Some(res)
    /\ verifier' = [verifier EXCEPT !.verified = TRUE]
    /\ biscuit_result' = [biscuit_result EXCEPT
                             !.verifier_world = RenderFacts(DumpWorld(verifier))]
    /\ pc' = "reconcile"
    /\ UNCHANGED <<ntoken, query, authority, blocks, block, editor, builder, token,
                   token_opt, verifier_checks, verifier_policies, i, j, pm_vars>>

\* ------------------------------------------------------------------------
\* Result reconciler (lib.rs 232-295)
\* ------------------------------------------------------------------------
TokenMarkers(eds, auth, blks) ==
    [k \in 1..Len(eds) |->
        IF k = 1 THEN [eds[k] EXCEPT !.markers = @ \o CheckMarkers(auth.checks)]
        ELSE IF k - 1 <= Len(blks)
             THEN [eds[k] EXCEPT !.markers = @ \o CheckMarkers(blks[k - 1].checks)]
             ELSE eds[k]]

\* one iteration of the loop over the failed checks (232-256)
FailedCheck ==
    /\ pc = "reconcile"
    /\ verifier_result[1].kind = "FailedChecks"
    /\ verifier_result[1].read < MaxFailures
    /\ \E e \in CheckRefs(verifier) :
        /\ verifier_result' = Some([verifier_result[1] EXCEPT !.v = @ \cup {e},
                                                              !.read = @ + 1])
        /\ LET st == ApplyFailure([authority |-> authority, blocks |-> blocks,
                                   verifier_checks |-> verifier_checks], e)
           IN  /\ authority' = st.authority
               /\ blocks' = st.blocks
               /\ verifier_checks' = st.verifier_checks
    /\ UNCHANGED <<pc, ntoken, query, biscuit_result, block, editor, builder, token,
                   token_opt, verifier, verifier_policies, i, j, pm_vars>>

\* the policy marker, the check markers and the outcome text (257-295)
Reconcile ==
    /\ pc = "reconcile"
    /\ verifier_result[1].kind = "FailedChecks" => verifier_result[1].read >= 1
    /\ LET res == verifier_result[1]
           ed  == biscuit_result.verifier_editor[1]
       IN  biscuit_result' = [biscuit_result EXCEPT
                 !.token_blocks = TokenMarkers(@, authority, blocks),
                 !.verifier_editor =
                     Some([ed EXCEPT !.markers = @ \o PolicyMarkers(res, verifier_policies)
                                                   \o CheckMarkers(verifier_checks)]),
                 !.verifier_result = Some(ResultText(res))]
    /\ pc' = "query"
    /\ UNCHANGED <<ntoken, query, authority, blocks, block, editor, builder, token,
                   token_opt, verifier, verifier_checks, verifier_policies,
                   verifier_result, i, j, pm_vars>>

\* ------------------------------------------------------------------------
\* Query executor (lib.rs 297-317)
\* ------------------------------------------------------------------------

\* query.query is None or empty
NoQuery ==
    /\ pc = "query"
    /\ \E q \in {None, Some("")} : query' = [query EXCEPT !.query = q]
    /\ pc' = "done"
    /\ UNCHANGED <<ntoken, biscuit_result, authority, blocks, block, editor, builder,
                   token, token_opt, verifier, verifier_checks, verifier_policies,
                   verifier_result, i, j, pm_vars>>

\* verifier.query(query) and the match on its result
RunQuery ==
    /\ pc = "query"
    /\ \E q \in {x \in Queries : x /= None /\ x /= Some("")} :
          query' = [query EXCEPT !.query = q]
    /\ \E res \in {[ok |-> TRUE, facts |-> DumpWorld(verifier)],
                   [ok |-> FALSE, facts |-> <<>>]} :
        /\ verifier' = [verifier EXCEPT !.queries = @ + 1,
                                        !.last_query = Some(res.ok)]
        /\ biscuit_result' = [biscuit_result EXCEPT
                                 !.query_result = QueryFacts(@, res)]
    /\ pc' = "done"
    /\ UNCHANGED <<ntoken, authority, blocks, block, editor, builder, token, token_opt,
                   verifier_checks, verifier_policies, verifier_result, i, j, pm_vars>>

Next ==
    \/ Start
    \/ ParseBlock
    \/ RegisterCheck
    \/ RegistrationFailure
    \/ FinishBlock
    \/ VerifierParseError
    \/ NoVerifier
    \/ VerifierParsed
    \/ RegisterVerifierCheck
    \/ PoliciesBegin
    \/ RegisterPolicy
    \/ Verify
    \/ FailedCheck
    \/ Reconcile
    \/ NoQuery
    \/ RunQuery

Spec == Init /\ [][Next]_vars

\* ------------------------------------------------------------------------
\* Specification of the position mapper alone: any text, any span of it
\* ------------------------------------------------------------------------
InitPos ==
    /\ ntoken = 0
    /\ PipeIdle
    /\ pm_input \in Texts
    /\ pm_span \in SpansOf(pm_input)
    /\ pm_pc = "call"
    /\ pm_position = NoPosition

Resolve ==
    /\ pm_pc = "call"
    /\ pm_position' = get_position(pm_input, pm_span)
    /\ pm_pc' = "returned"
    /\ UNCHANGED <<pm_input, pm_span, ntoken, pipe_vars>>

NextPos == Resolve

SpecPos == InitPos /\ [][NextPos]_vars

\* position of the first byte of line l (0-based) of t, as a byte offset
LineOffset(t, l) ==
    IF l = 0 THEN 0
    ELSE Min({a \in 1..Len(t) : t[a] = NL /\ Cardinality({b \in 1..a : t[b] = NL}) = l})

\* byte offsets of the two ends of a position in t
StartOffset(t, pos) == LineOffset(t, pos.line_start) + pos.column_start

EndOffset(t, pos) == LineOffset(t, pos.line_end) + pos.column_end - 1

SpanText(t, s) == SubSeq(t, s.ptr + 1, s.ptr + s.len)

LexGE(l1, c1, l2, c2) == l1 > l2 \/ (l1 = l2 /\ c1 >= c2)

\* C6: for a non-empty span s of t, the end position of get_position(t, s) is
\* lexicographically >= its start position, and the bytes of t from
\* (line_start, column_start) up to the point one column before
\* (line_end, column_end), column_end being one past the end, are exactly s.
C6_EndAfterStartAndReslice ==
    (pm_pc = "returned" /\ pm_span.len > 0) =>
        /\ LexGE(pm_position.line_end, pm_position.column_end,
                 pm_position.line_start, pm_position.column_start)
        /\ StartOffset(pm_input, pm_position) <= EndOffset(pm_input, pm_position)
        /\ EndOffset(pm_input, pm_position) <= Len(pm_input)
        /\ SubSeq(pm_input, StartOffset(pm_input, pm_position) + 1,
                  EndOffset(pm_input, pm_position)) = SpanText(pm_input, pm_span)

\* a span that starts on one line, right after a newline, and ends on the next
C6_Witness ==
    /\ pm_pc = "returned"
    /\ pm_span.len = 2
    /\ pm_span.ptr = 1
    /\ pm_input = <<NL, 97, NL>>
    /\ pm_position = [line_start |-> 1, column_start |-> 0, line_end |-> 2, column_end |-> 1]

\* C8: a zero-length span, at any offset of t, resolves to
\* line_end = line_start and column_end = column_start + 1.
C8_ZeroLengthSpan ==
    (pm_pc = "returned" /\ pm_span.len = 0) =>
        /\ pm_position.line_end = pm_position.line_start
        /\ pm_position.column_end = pm_position.column_start + 1

\* a zero-length span right after a newline
C8_Witness ==
    /\ pm_pc = "returned"
    /\ pm_span.len = 0
    /\ pm_span.ptr = 2
    /\ pm_input[2] = NL
    /\ pm_position.line_start = 1
    /\ pm_position.column_start = 0

\* ------------------------------------------------------------------------
\* Properties of the pipeline
\* ------------------------------------------------------------------------
Res == verifier_result[1]

Evaluated == verifier.verified

AfterReconcile == pc \in {"query", "done"} /\ Evaluated

\* the checks of token block b (0 = authority), as kept locally
LocalChecks(b) == IF b = 0 THEN authority.checks ELSE blocks[b].checks

BlockRef(b, c) == [verifier_local |-> FALSE, block_id |-> b, check_id |-> c]

VerifierRef(c) == [verifier_local |-> TRUE, block_id |-> 0, check_id |-> c]

Referenced(ref) == Res.kind = "FailedChecks" /\ ref \in Res.v

VerifierMarkers == biscuit_result.verifier_editor[1].markers

Positions(text, spans) == [k \in 1..Len(spans) |-> get_position(text, spans[k])]

PositionsOf(checks) == [k \in 1..Len(checks) |-> checks[k].position]

\* C1: once the outcome is reconciled, the Marker of every check registered in
\* a token block or in the verifier has ok = FALSE exactly when the outcome is
\* FailedChecks and its list names the check, however many times.
C1_MarkerFalseIffReferenced ==
    AfterReconcile =>
        /\ \A b \in 0..(Len(token) - 1) :
              LET ms == biscuit_result.token_blocks[b + 1].markers
              IN  /\ Len(ms) = Len(token[b + 1].checks)
                  /\ \A c \in 0..(Len(ms) - 1) :
                        (ms[c + 1].ok = FALSE) <=> Referenced(BlockRef(b, c))
        /\ LET n   == Len(verifier.checks)
               off == Len(VerifierMarkers) - n
           IN  /\ off >= 0
               /\ \A c \in 0..(n - 1) :
                     (VerifierMarkers[off + c + 1].ok = FALSE) <=> Referenced(VerifierRef(c))

\* one check named twice by the list and false, another never named and true
C1_Witness ==
    /\ pc = "done"
    /\ Evaluated
    /\ Res.kind = "FailedChecks"
    /\ Res.read = 2
    /\ Res.v = {BlockRef(1, 0)}
    /\ Len(biscuit_result.token_blocks) = 2
    /\ Len(biscuit_result.token_blocks[2].markers) = 2
    /\ biscuit_result.token_blocks[2].markers[1].ok = FALSE
    /\ biscuit_result.token_blocks[2].markers[2].ok = TRUE

\* C2: once the verifier block is evaluated and reconciled, the verifier Editor
\* holds, before its check Markers, one policy Marker when the outcome is Ok or
\* Deny (ok = TRUE for Ok, FALSE for Deny, at the position of the policy with
\* the reported index) and none when it is FailedChecks or another error; the
\* Editors of the token blocks never hold anything but their check Markers.
C2_PolicyMarker ==
    /\ AfterReconcile =>
          LET n == Len(verifier_checks)
          IN  /\ Res.kind \in {"Ok", "Deny"} =>
                    /\ Len(VerifierMarkers) = n + 1
                    /\ VerifierMarkers[1] =
                          Marker(Res.kind = "Ok",
                                 get_position(VerifierSource.text,
                                              VerifierSource.policies[Res.index + 1]))
                    /\ SubSeq(VerifierMarkers, 2, n + 1) = CheckMarkers(verifier_checks)
              /\ Res.kind \in {"FailedChecks", "Other"} =>
                    VerifierMarkers = CheckMarkers(verifier_checks)
    /\ \A k \in 1..Len(biscuit_result.token_blocks) :
          \/ biscuit_result.token_blocks[k].markers = <<>>
          \/ /\ AfterReconcile
             /\ biscuit_result.token_blocks[k].markers = CheckMarkers(LocalChecks(k - 1))

\* a Deny of the second policy, after a token block with checks
C2_Witness ==
    /\ pc = "done"
    /\ Evaluated
    /\ Res.kind = "Deny"
    /\ Res.index = 1
    /\ Len(verifier_checks) = 1
    /\ Len(VerifierMarkers) = 2
    /\ VerifierMarkers[1].ok = FALSE
    /\ Len(biscuit_result.token_blocks) >= 1
    /\ biscuit_result.token_blocks[1].markers /= <<>>

\* C3: at the end of every request, every check registered in a token block or
\* in the verifier block is one Marker of its Editor, in ordinal order, with
\* its pass flag.
C3_EveryCheckHasMarker ==
    pc = "done" =>
        /\ \A k \in 1..Len(biscuit_result.token_blocks) :
              biscuit_result.token_blocks[k].markers = CheckMarkers(LocalChecks(k - 1))
        /\ biscuit_result.verifier_editor /= None =>
              LET n == Len(verifier_checks)
              IN  /\ Len(VerifierMarkers) >= n
                  /\ SubSeq(VerifierMarkers, Len(VerifierMarkers) - n + 1,
                            Len(VerifierMarkers)) = CheckMarkers(verifier_checks)

\* what the diagnostics of the token blocks are when nothing is dropped
TokenDiagnosticsComplete ==
    \A k \in 1..Len(biscuit_result.token_blocks) :
        /\ biscuit_result.token_blocks[k].errors =
              get_parse_errors(query.token_blocks[k].text, query.token_blocks[k].errors)
        /\ biscuit_result.token_blocks[k].markers = CheckMarkers(LocalChecks(k - 1))

\* C4: a parse failure or a check failure in one block, token block or verifier
\* block, shows on that block's Editor and the response of a request with a
\* verifier block still carries the ParseErrors and the check Markers of the
\* other blocks and the rendered world.
C4_FailureNeverAborts ==
    (pc = "done" /\ query.verifier_code /= None) =>
        /\ TokenDiagnosticsComplete
        /\ biscuit_result.verifier_editor[1].errors =
              get_parse_errors(VerifierSource.text, VerifierSource.errors)
        /\ biscuit_result.verifier_world = RenderFacts(DumpWorld(verifier))

\* every token block of the request has been assembled
BlocksAssembled == ntoken >= 1 /\ i = ntoken

\* C5: whichever token blocks fail to parse, the response is returned only
\* after all n >= 1 blocks were assembled; it then holds n Editors in input
\* order, an unparsable block has at least one ParseError, no check and an
\* empty block in the token, so that a parsed block keeps its index; the token
\* is rendered, and a verifier block that parses is evaluated against it.
C5_ParseFailureDoesNotShortCircuit ==
    /\ (ntoken >= 1 /\ pc \in {"verifier", "verifier_checks", "verifier_policies",
                               "reconcile", "query", "done"}) => i = ntoken
    /\ BlocksAssembled =>
          /\ Len(biscuit_result.token_blocks) = ntoken
          /\ Len(token) = ntoken
          /\ Len(blocks) = ntoken - 1
          /\ \A k \in 1..ntoken :
                LET src == query.token_blocks[k]
                    ed  == biscuit_result.token_blocks[k]
                IN  /\ ed.errors = get_parse_errors(src.text, src.errors)
                    /\ ~src.ok => /\ Len(ed.errors) >= 1
                                  /\ LocalChecks(k - 1) = <<>>
                                  /\ token[k] = EmptyBuilder
                    /\ src.ok => /\ ed.errors = <<>>
                                 /\ token[k].checks = src.checks
                                 /\ Len(LocalChecks(k - 1)) = Len(src.checks)
          /\ biscuit_result.token_content = TokenContent(token)
          /\ token_opt = Some(token)
          /\ Evaluated => verifier.blocks = token
          /\ (pc = "done" /\ query.verifier_code /= None /\ VerifierSource.ok) => Evaluated

\* an unparsable authority block, then a parsed block with two checks, evaluated
C5_Witness ==
    /\ pc = "done"
    /\ ntoken = 2
    /\ ~query.token_blocks[1].ok
    /\ query.token_blocks[2].ok
    /\ Len(token[2].checks) = 2
    /\ Evaluated
    /\ Len(biscuit_result.token_blocks[2].markers) = 2

\* the state of reconciliation that the query must find
ReconciliationDone ==
    /\ Evaluated
    /\ biscuit_result.verifier_result = Some(ResultText(Res))
    /\ \A k \in 1..Len(biscuit_result.token_blocks) :
          biscuit_result.token_blocks[k].markers = CheckMarkers(LocalChecks(k - 1))
    /\ Len(VerifierMarkers) >= Len(verifier_checks)

QueryStep ==
    /\ verifier'.queries /= verifier.queries =>
          /\ query'.query /= None
          /\ query'.query /= Some("")
          /\ pc = "query"
          /\ ReconciliationDone
    /\ (pc = "query" /\ pc' = "done") =>
          /\ biscuit_result' = [biscuit_result EXCEPT !.query_result = biscuit_result'.query_result]
          /\ verifier_result' = verifier_result
          /\ query'.query \in {None, Some("")} =>
                /\ verifier'.queries = verifier.queries
                /\ biscuit_result'.query_result = <<>>
          /\ query'.query \notin {None, Some("")} =>
                /\ verifier'.queries = verifier.queries + 1
                /\ verifier'.last_query = Some(FALSE) => biscuit_result'.query_result = <<>>
                /\ verifier'.last_query = Some(TRUE) =>
                      biscuit_result'.query_result = RenderFacts(DumpWorld(verifier))

\* C7: verifier.query is called only with a non-empty query string and only
\* once verification and reconciliation are done; the step that handles the
\* query changes nothing of the response but query_result, which stays empty
\* when the query fails.
C7_QueryFrame == [][QueryStep]_vars

\* a failed query, after an evaluation that left markers and a world
C7_Witness ==
    /\ pc = "done"
    /\ verifier.queries = 1
    /\ verifier.last_query = Some(FALSE)
    /\ query.query /= Some("")
    /\ biscuit_result.query_result = <<>>
    /\ biscuit_result.verifier_world /= <<>>
    /\ VerifierMarkers /= <<>>

\* the assembly steps: everything up to the call of verify_with_limits
Assembling == pc \notin {"reconcile", "query", "done"}

\* C9: in every scope and after every prefix of the assembly steps the checks
\* held by the external builder and the locally kept list have the same length
\* and the k-th local position is the position of the k-th registered check,
\* and so for the verifier's policies; a failure (block_id b, check_id c) therefore
\* shows as Marker c, ok = FALSE, of the Editor of token block b at the
\* position of that check, and a verifier-local failure c as that of check c
\* of the verifier.
C9_RegisterAndRecordAgree ==
    /\ pc = "checks" =>
          /\ Len(builder.checks) = j
          /\ PositionsOf(CurrentChecks) = Positions(Source.text, builder.checks)
    /\ Assembling =>
          \A b \in 0..(Len(token) - 1) :
             PositionsOf(LocalChecks(b)) =
                Positions(query.token_blocks[b + 1].text, token[b + 1].checks)
    /\ (Assembling /\ query.verifier_code /= None /\ VerifierSource.ok) =>
          /\ PositionsOf(verifier_checks) = Positions(VerifierSource.text, verifier.checks)
          /\ verifier_policies = Positions(VerifierSource.text, verifier.policies)
    /\ (AfterReconcile /\ Res.kind = "FailedChecks") =>
          \A e \in Res.v :
             IF e.verifier_local
             THEN VerifierMarkers[e.check_id + 1] =
                     Marker(FALSE, get_position(VerifierSource.text,
                                                verifier.checks[e.check_id + 1]))
             ELSE biscuit_result.token_blocks[e.block_id + 1].markers[e.check_id + 1] =
                     Marker(FALSE, get_position(query.token_blocks[e.block_id + 1].text,
                                                token[e.block_id + 1].checks[e.check_id + 1]))

\* the second check of the extension block and the second check of the verifier fail
C9_Witness ==
    /\ pc = "done"
    /\ Evaluated
    /\ Res.kind = "FailedChecks"
    /\ Res.v = {BlockRef(1, 1), VerifierRef(1)}
    /\ biscuit_result.token_blocks[2].markers[2].ok = FALSE
    /\ biscuit_result.token_blocks[2].markers[1].ok = TRUE
    /\ VerifierMarkers[2].ok = FALSE
    /\ VerifierMarkers[1].ok = TRUE

AllOk(markers) == \A k \in 1..Len(markers) : markers[k].ok

\* C10: an evaluation that ends in an error other than Deny or FailedChecks
\* does not abort the request; the error shows as the outcome text only: every
\* registered check has its Marker with ok = TRUE, there is no policy Marker,
\* the world is rendered; and the outcome text is Success only for Ok.
C10_EvaluationError ==
    /\ Evaluated => pc \in {"reconcile", "query", "done"}
    /\ (AfterReconcile /\ Res.kind = "Other") =>
          /\ biscuit_result.verifier_result = Some(<<"Error: ", Res>>)
          /\ VerifierMarkers = CheckMarkers(verifier_checks)
          /\ AllOk(VerifierMarkers)
          /\ \A k \in 1..Len(biscuit_result.token_blocks) :
                /\ Len(biscuit_result.token_blocks[k].markers) = Len(token[k].checks)
                /\ AllOk(biscuit_result.token_blocks[k].markers)
          /\ biscuit_result.verifier_world = RenderFacts(DumpWorld(verifier))
    /\ biscuit_result.verifier_result = Some(<<"Success">>) => (Evaluated /\ Res.kind = "Ok")

\* a timeout with checks in a token block and in the verifier, and two policies
C10_Witness ==
    /\ pc = "done"
    /\ Evaluated
    /\ Res.kind = "Other"
    /\ Res.error = Some("RunLimit(Timeout)")
    /\ Len(verifier_policies) = 2
    /\ Len(VerifierMarkers) = 2
    /\ Len(biscuit_result.token_blocks) = 2
    /\ Len(biscuit_result.token_blocks[2].markers) = 1
    /\ biscuit_result.verifier_world /= <<>>

====
